---- MODULE Spec2Model ----
(***************************************************************************)
(* Model of the rendering core of asny/Dust:                               *)
(*   src/src/object/mesh.rs            Mesh, MeshProgram, the Mesh-family  *)
(*                                     program cache and MESH_COUNT        *)
(*   src/src/phong/forward_mesh.rs     PhongForwardMesh, the forward       *)
(*                                     program cache and its MESH_COUNT    *)
(*   src/src/effect/image_effect.rs    ImageEffect (screen-space pass)     *)
(*   src/src/phong/deferred_pipeline.rs PhongDeferredPipeline              *)
(* Collaborators outside these files (Program, VertexBuffer, textures,     *)
(* render targets, matrix inversion) are modelled by their results: every  *)
(* call that returns a Result may fail, and every call draws at most one   *)
(* such failure from the input `fault`.                                    *)
(***************************************************************************)
EXTENDS Integers, Sequences, FiniteSets, Bags, TLC

VARIABLES
    MESH_COUNT,          \* mesh.rs: static mut MESH_COUNT
    FORWARD_MESH_COUNT,  \* forward_mesh.rs: static mut MESH_COUNT
    meshPrograms,        \* mesh.rs: the four static mut PROGRAM_* slots
    forwardPrograms,     \* forward_mesh.rs: the four static mut PROGRAM_* slots
    live,                \* the bag of Mesh / PhongForwardMesh objects that exist
    compiled,            \* number of MeshProgram objects created for the slots
    lastOp,              \* what the last call on a mesh did and returned
    pipeline,            \* Option<PhongDeferredPipeline>: the pipeline built
    allocated,           \* number of textures allocated so far
    snapshot,            \* the depth snapshot the caller took last, if any
    lastCall,            \* what the last call on the pipeline did and returned
    threads,             \* per thread: where it is in a call split into its loads and stores
    race                 \* history of the threads' calls

cacheVars == <<MESH_COUNT, FORWARD_MESH_COUNT, meshPrograms, forwardPrograms,
               live, compiled, lastOp>>

pipelineVars == <<pipeline, allocated, snapshot, lastCall>>

threadVars == <<threads, race>>

vars == <<MESH_COUNT, FORWARD_MESH_COUNT, meshPrograms, forwardPrograms,
          live, compiled, lastOp, pipeline, allocated, snapshot, lastCall,
          threads, race>>

----------------------------------------------------------------------------
(* Bounds *)

MaxMeshes == 2      \* objects that can be alive at once
MaxCompiles == 2    \* MeshProgram objects compiled into slots in one run
MaxTriangles == 2   \* triangles of a CPU mesh
MaxLights == 2      \* lights of one type passed to light_pass
MaxDim == 2         \* width and height asked of geometry_pass
MaxTextures == 6    \* textures allocated in one run
MaxForwardCompiles == 4   \* programs compiled in one run of the forward specification
MaxCreated == 2     \* meshes constructed in one run of the threads

----------------------------------------------------------------------------
(* Values *)

\* Option<T>: None is the empty sequence, Some(x) the sequence holding x.
None == <<>>

Some(x) == <<x>>

\* The attribute markers MeshProgram::new searches the fragment source for.
MarkerPos == "in vec3 pos;"
MarkerNor == "in vec3 nor;"
MarkerUvs == "in vec2 uvs;"
MarkerCol == "in vec4 col;"
Markers == {MarkerPos, MarkerNor, MarkerUvs, MarkerCol}

\* A CPUMesh: positions is the length of the f32 position array (three per
\* vertex), indices the length of the index array (0: no indices).
CPUMeshes ==
    [positions : {9 * k : k \in 1..MaxTriangles},
     normals : BOOLEAN, indices : {0, 3}, uvs : BOOLEAN, colors : BOOLEAN]

\* The CPU meshes of the cache specification: two shapes, one with every
\* optional attribute and one with none.
CacheCPUMeshes ==
    {c \in CPUMeshes :
        /\ c.positions = 9
        /\ \/ c.normals /\ c.uvs /\ c.colors /\ c.indices = 3
           \/ ~c.normals /\ ~c.uvs /\ ~c.colors /\ c.indices = 0}

\* The CPU meshes the cache specification builds plain meshes from: the shape
\* with every optional attribute.
CachePlainCPUMeshes == {c \in CacheCPUMeshes : c.normals}

ColorSources == {"Color", "Texture"}

\* One collaborator failure per call, at the named call site.
Faults == {"none", "alloc_positions", "alloc_normals", "alloc_indices",
           "alloc_uvs", "alloc_colors", "compile", "bind_pre",
           "bind_modelMatrix", "bind_position", "bind_uv_coordinates",
           "invert", "bind_normalMatrix", "bind_normal", "bind_color"}

NewFaults == {"none", "alloc_positions", "alloc_normals", "alloc_indices",
              "alloc_uvs", "alloc_colors"}

RenderFaults == (Faults \ NewFaults) \cup {"none"}

\* The failures the cache specification injects.
CacheNewFaults == {"none", "alloc_positions"}

CacheRenderFaults == {"none", "compile", "bind_position"}

\* An injected failure is one the call runs into: a failure at a call site
\* the call never reaches is the call without failure.
Fires(fault, reached) == fault = "none" \/ reached

----------------------------------------------------------------------------
(* MeshProgram *)

NoProgram == [id |-> -1, use_normals |-> FALSE, use_uvs |-> FALSE, use_colors |-> FALSE]

\* Mutant: use_colors is read off the uv marker.
MeshProgramNewColorsFromUvs(id, src) ==
    [id |-> id,
     use_normals |-> MarkerNor \in src,
     use_uvs |-> MarkerUvs \in src,
     use_colors |-> MarkerUvs \in src]

\* MeshProgram::new on a source holding the markers `src`; `id` is the
\* identity of the Program object that Program::from_source returns.
MeshProgramNew(id, src) ==
    [id |-> id,
     use_normals |-> MarkerNor \in src,
     use_uvs |-> MarkerUvs \in src,
     use_colors |-> MarkerCol \in src]

\* Markers present in the fragment sources written in mesh.rs.
SourceDepth == {}
SourcePerVertexColor == {MarkerCol}
SourceColor == {}
SourceTexture == {MarkerUvs}

\* Markers of the fragment sources forward_mesh.rs includes from shaders/.
SourceForward(color_source, directional) ==
    (IF color_source = "Texture" THEN {MarkerUvs} ELSE {})
    \cup (IF directional THEN {MarkerPos, MarkerNor} ELSE {})

MeshSlots == {"PROGRAM_COLOR", "PROGRAM_TEXTURE", "PROGRAM_DEPTH", "PROGRAM_PER_VERTEX_COLOR"}

ForwardSlots == {"PROGRAM_COLOR_AMBIENT", "PROGRAM_COLOR_AMBIENT_DIRECTIONAL",
                 "PROGRAM_TEXTURE_AMBIENT", "PROGRAM_TEXTURE_AMBIENT_DIRECTIONAL"}

----------------------------------------------------------------------------
(* Mesh::new *)

\* The buffers Mesh::new allocates, in order; the first failing allocation
\* returns its error before MESH_COUNT is touched.
MeshNewFails(cpu, fault) ==
    \/ fault = "alloc_positions"
    \/ fault = "alloc_normals" /\ cpu.normals
    \/ fault = "alloc_indices" /\ cpu.indices # 0
    \/ fault = "alloc_uvs" /\ cpu.uvs
    \/ fault = "alloc_colors" /\ cpu.colors

\* The Mesh that Mesh::new builds: position_buffer and index_buffer hold the
\* element count of the buffer (index_buffer 0: None).
MeshOf(cpu) ==
    [position_buffer |-> cpu.positions,
     normal_buffer |-> cpu.normals,
     index_buffer |-> cpu.indices,
     uv_buffer |-> cpu.uvs,
     color_buffer |-> cpu.colors]

\* `MESH_COUNT += 1` of Mesh::new.
MeshCountAfterNew(count) == count + 1

\* Mutant: PhongForwardMesh::new forgets to count the object.
ForwardCountNotRaised(count) == count

\* `MESH_COUNT += 1` of PhongForwardMesh::new.
ForwardCountAfterNew(count) == count + 1

\* A CPUMesh without data, for the calls that take none.
NoCPUMesh == [positions |-> 0, normals |-> FALSE, indices |-> 0, uvs |-> FALSE, colors |-> FALSE]

\* The record of a call: the function, the CPUMesh a constructor was given,
\* the object it was called on (or that it built), the
\* PROGRAM_* slot it went through, what the compiler did for that slot, the
\* program it used, whether Mesh::render was entered, the collaborator
\* failure it ran into, the attribute it found missing, the draw calls it
\* issued and what it returned.
NoOp == [op |-> "none", cpu |-> NoCPUMesh, self |-> None, slot |-> "none", compile |-> "none",
         program |-> NoProgram, rendered |-> FALSE, fault |-> "none",
         missing |-> "none", draws |-> <<>>, result |-> "Ok"]

Called(op, self, result) ==
    [NoOp EXCEPT !.op = op, !.self = self, !.result = result]

\* The objects alive, and the bag after one is created or destroyed.
Alive == BagToSet(live)

NumberAlive == BagCardinality(live)

Created(object) == live (+) SetToBag({object})

Destroyed(object) == live (-) SetToBag({object})

PlainMesh(cpu) == [forward |-> FALSE, color_source |-> "None", mesh |-> MeshOf(cpu)]

ForwardMesh(cpu, color_source) == [forward |-> TRUE, color_source |-> color_source, mesh |-> MeshOf(cpu)]

\* Mesh::new(context, cpu_mesh); the caller keeps at most `cap` objects alive.
MeshNew(cap, cpu, fault) ==
    /\ NumberAlive < cap
    /\ Fires(fault, MeshNewFails(cpu, fault))
    /\ IF MeshNewFails(cpu, fault)
       THEN /\ lastOp' = [Called("Mesh::new", None, "Err") EXCEPT !.cpu = cpu, !.fault = fault]
            /\ UNCHANGED <<MESH_COUNT, live>>
       ELSE /\ MESH_COUNT' = MeshCountAfterNew(MESH_COUNT)
            /\ live' = Created(PlainMesh(cpu))
            /\ lastOp' = [Called("Mesh::new", Some(PlainMesh(cpu)), "Ok") EXCEPT !.cpu = cpu]
    /\ UNCHANGED <<FORWARD_MESH_COUNT, meshPrograms, forwardPrograms, compiled>>
    /\ UNCHANGED <<pipelineVars, threadVars>>

\* Mutant: PhongForwardMesh::new accepts a mesh without normals.
NormalsNeverMissing(cpu) == FALSE

\* `cpu_mesh.normals.is_none()` of PhongForwardMesh::new.
NormalsMissing(cpu) == ~cpu.normals

\* PhongForwardMesh::new(context, cpu_mesh, material).
PhongForwardMeshNew(cap, cpu, color_source, fault) ==
    /\ NumberAlive < cap
    /\ Fires(fault, ~NormalsMissing(cpu) /\ MeshNewFails(cpu, fault))
    /\ IF NormalsMissing(cpu)
       THEN /\ lastOp' = [Called("PhongForwardMesh::new", None, "FailedToCreateMesh")
                             EXCEPT !.cpu = cpu]
            /\ UNCHANGED <<MESH_COUNT, FORWARD_MESH_COUNT, live>>
       ELSE IF MeshNewFails(cpu, fault)
       THEN /\ lastOp' = [Called("PhongForwardMesh::new", None, "Err")
                             EXCEPT !.cpu = cpu, !.fault = fault]
            /\ UNCHANGED <<MESH_COUNT, FORWARD_MESH_COUNT, live>>
       ELSE /\ MESH_COUNT' = MeshCountAfterNew(MESH_COUNT)
            /\ FORWARD_MESH_COUNT' = ForwardCountAfterNew(FORWARD_MESH_COUNT)
            /\ live' = Created(ForwardMesh(cpu, color_source))
            /\ lastOp' = [Called("PhongForwardMesh::new", Some(ForwardMesh(cpu, color_source)), "Ok")
                             EXCEPT !.cpu = cpu]
    /\ UNCHANGED <<meshPrograms, forwardPrograms, compiled>>
    /\ UNCHANGED <<pipelineVars, threadVars>>

----------------------------------------------------------------------------
(* Drop *)

\* Mutant: the drop that clears the slots leaves PROGRAM_DEPTH as it is.
ClearedButDepth(slots) ==
    [s \in DOMAIN slots |-> IF s = "PROGRAM_DEPTH" THEN slots[s] ELSE None]

Cleared(slots) == [s \in DOMAIN slots |-> None]

\* Mutant: Drop for Mesh lowers the counter and keeps the programs.
DropMeshKeepsPrograms(count, slots) == [count |-> count - 1, slots |-> slots]

\* Drop for Mesh: the state of (MESH_COUNT, PROGRAM_*) after drop.  The
\* counters are u32 and stay far below 2^32 here; a decrement of 0 would
\* show as -1.
DropMesh(count, slots) ==
    LET c == count - 1
    IN  [count |-> c, slots |-> IF c = 0 THEN Cleared(slots) ELSE slots]

\* Mutant: Drop for PhongForwardMesh clears its slots one object too late.
DropForwardClearsLate(count, slots) ==
    [count |-> count - 1, slots |-> IF count = 0 THEN Cleared(slots) ELSE slots]

\* Drop for PhongForwardMesh, the same on the forward statics.
DropForward(count, slots) ==
    LET c == count - 1
    IN  [count |-> c, slots |-> IF c = 0 THEN Cleared(slots) ELSE slots]

\* Mutant: the forward slots are cleared by the counter of the Mesh family.
DropForwardSlotsWithMeshCount(object) ==
    /\ object \in Alive
    /\ LET m == DropMesh(MESH_COUNT, meshPrograms)
       IN  /\ MESH_COUNT' = m.count
           /\ meshPrograms' = m.slots
           /\ IF object.forward
              THEN /\ FORWARD_MESH_COUNT' = FORWARD_MESH_COUNT - 1
                   /\ forwardPrograms' = IF m.count = 0 THEN Cleared(forwardPrograms)
                                         ELSE forwardPrograms
              ELSE UNCHANGED <<FORWARD_MESH_COUNT, forwardPrograms>>
    /\ live' = Destroyed(object)
    /\ lastOp' = Called("drop", Some(object), "Ok")
    /\ UNCHANGED compiled
    /\ UNCHANGED <<pipelineVars, threadVars>>

\* Destroying an object: for a PhongForwardMesh its own drop runs, then the
\* drop of its field `mesh`; for a Mesh only the latter.
Drop(object) ==
    /\ object \in Alive
    /\ LET m == DropMesh(MESH_COUNT, meshPrograms)
           f == DropForward(FORWARD_MESH_COUNT, forwardPrograms)
       IN  /\ MESH_COUNT' = m.count
           /\ meshPrograms' = m.slots
           /\ IF object.forward
              THEN /\ FORWARD_MESH_COUNT' = f.count
                   /\ forwardPrograms' = f.slots
              ELSE UNCHANGED <<FORWARD_MESH_COUNT, forwardPrograms>>
    /\ live' = Destroyed(object)
    /\ lastOp' = Called("drop", Some(object), "Ok")
    /\ UNCHANGED compiled
    /\ UNCHANGED <<pipelineVars, threadVars>>

----------------------------------------------------------------------------
(* Mesh::render *)

DrawElements(index_buffer) == [call |-> "draw_elements", count |-> index_buffer]

DrawArrays(count) == [call |-> "draw_arrays", count |-> count]

\* Mutant: the non-indexed draw is given the length of the position buffer.
DrawWithoutIndicesUndivided(mesh) == DrawArrays(mesh.position_buffer)

\* The non-indexed draw of Mesh::render.
DrawWithoutIndices(mesh) == DrawArrays(mesh.position_buffer \div 3)

\* The draw dispatch that ends Mesh::render.
Dispatch(mesh) ==
    IF mesh.index_buffer # 0
    THEN <<DrawElements(mesh.index_buffer)>>
    ELSE <<DrawWithoutIndices(mesh)>>

Returned(result, fault, missing, draws) ==
    [result |-> result, fault |-> fault, missing |-> missing, draws |-> draws]

\* `?` on a collaborator call that failed.
Failed(fault) == Returned("Err", fault, "none", <<>>)

\* `.ok_or(Error::FailedToCreateMesh {..})?` on an absent buffer.
Missing(attribute) == Returned("FailedToCreateMesh", "none", attribute, <<>>)

\* The use_colors block of Mesh::render and the draw after it.
RenderColors(mesh, program, fault) ==
    IF program.use_colors /\ ~mesh.color_buffer THEN Missing("color")
    ELSE IF program.use_colors /\ fault = "bind_color" THEN Failed(fault)
    ELSE Returned("Ok", "none", "none", Dispatch(mesh))

\* Mutant: the normal buffer is not looked for.
RenderNormalsUnchecked(mesh, program, fault) ==
    IF program.use_normals /\ fault = "invert" THEN Returned("Panic", fault, "none", <<>>)
    ELSE IF program.use_normals /\ fault \in {"bind_normalMatrix", "bind_normal"} THEN Failed(fault)
    ELSE RenderColors(mesh, program, fault)

\* The use_normals block of Mesh::render and what follows it.
RenderNormals(mesh, program, fault) ==
    IF program.use_normals /\ ~mesh.normal_buffer THEN Missing("normal")
    ELSE IF program.use_normals /\ fault = "invert" THEN Returned("Panic", fault, "none", <<>>)
    ELSE IF program.use_normals /\ fault \in {"bind_normalMatrix", "bind_normal"} THEN Failed(fault)
    ELSE RenderColors(mesh, program, fault)

\* The use_uvs block of Mesh::render and what follows it.
RenderUvs(mesh, program, fault) ==
    IF program.use_uvs /\ ~mesh.uv_buffer THEN Missing("uv")
    ELSE IF program.use_uvs /\ fault = "bind_uv_coordinates" THEN Failed(fault)
    ELSE RenderNormals(mesh, program, fault)

\* Mesh::render(program, render_states, viewport, transformation, camera):
\* what it returns and the draw calls it issues.  fault = "invert" stands for
\* a transformation that has no inverse.
MeshRender(mesh, program, fault) ==
    IF fault \in {"bind_modelMatrix", "bind_position"} THEN Failed(fault)
    ELSE RenderUvs(mesh, program, fault)

----------------------------------------------------------------------------
(* The lazily filled PROGRAM_* slots *)

\* Mutant: the program is compiled on every call.
FetchAlwaysCompiles(slot, src, n, fault) ==
    IF fault = "compile" THEN [slot |-> None, compile |-> "failed"]
    ELSE [slot |-> Some(MeshProgramNew(n + 1, src)), compile |-> "ok"]

\* `if SLOT.is_none() { SLOT = Some(MeshProgram::new(..)?) }`: the slot
\* afterwards and what the compiler did.  `n` programs were compiled before.
Fetch(slot, src, n, fault) ==
    IF slot # None THEN [slot |-> slot, compile |-> "none"]
    ELSE IF fault = "compile" THEN [slot |-> None, compile |-> "failed"]
    ELSE [slot |-> Some(MeshProgramNew(n + 1, src)), compile |-> "ok"]

\* What a render function records once its slot has been fetched: the `?`
\* after MeshProgram::new, the bindings made before Mesh::render (pre_bind:
\* whether there are any), then Mesh::render.
RenderRecord(op, self, slot, f, pre_bind, fault) ==
    IF f.compile = "failed"
    THEN [Called(op, self, "Err") EXCEPT !.slot = slot, !.compile = "failed", !.fault = "compile"]
    ELSE IF pre_bind /\ fault = "bind_pre"
    THEN [Called(op, self, "Err") EXCEPT !.slot = slot, !.compile = f.compile,
                                         !.program = f.slot[1], !.fault = fault]
    ELSE LET r == MeshRender(self[1].mesh, f.slot[1], fault)
         IN  [op |-> op, self |-> self, slot |-> slot, compile |-> f.compile,
              program |-> f.slot[1], rendered |-> TRUE, fault |-> r.fault,
              missing |-> r.missing, draws |-> r.draws, result |-> r.result]

\* A fresh program can be compiled only while the bound allows one.
CanCompileWithin(cap, slot, fault) == (slot = None /\ fault # "compile") => compiled < cap

CanCompile(slot, fault) == CanCompileWithin(MaxCompiles, slot, fault)

\* A render function of mesh.rs on a Mesh (a PhongForwardMesh derefs to its
\* Mesh), using `slot`.
MeshRenderWith(op, slot, src, pre_bind, object, fault) ==
    /\ object \in Alive
    /\ CanCompile(meshPrograms[slot], fault)
    /\ LET f == Fetch(meshPrograms[slot], src, compiled, fault)
       IN  /\ meshPrograms' = [meshPrograms EXCEPT ![slot] = f.slot]
           /\ compiled' = IF f.compile = "ok" THEN compiled + 1 ELSE compiled
           /\ lastOp' = RenderRecord(op, Some(object), slot, f, pre_bind, fault)
           /\ Fires(fault, lastOp'.fault = fault)
    /\ UNCHANGED <<MESH_COUNT, FORWARD_MESH_COUNT, forwardPrograms, live>>
    /\ UNCHANGED <<pipelineVars, threadVars>>

render_depth(object, fault) ==
    MeshRenderWith("render_depth", "PROGRAM_DEPTH", SourceDepth, FALSE, object, fault)

render_color(object, fault) ==
    MeshRenderWith("render_color", "PROGRAM_PER_VERTEX_COLOR", SourcePerVertexColor, FALSE, object, fault)

render_with_color(object, fault) ==
    MeshRenderWith("render_with_color", "PROGRAM_COLOR", SourceColor, TRUE, object, fault)

render_with_texture(object, fault) ==
    MeshRenderWith("render_with_texture", "PROGRAM_TEXTURE", SourceTexture, TRUE, object, fault)

\* Mesh::render with a MeshProgram the caller built from a source of its own.
CustomPrograms == {MeshProgramNew(0, src) : src \in SUBSET Markers}

render(object, program, fault) ==
    /\ object \in Alive
    /\ Fires(fault, MeshRender(object.mesh, program, fault).fault = fault)
    /\ LET r == MeshRender(object.mesh, program, fault)
       IN  lastOp' = [op |-> "render", self |-> Some(object), slot |-> "none",
                      compile |-> "none", program |-> program, rendered |-> TRUE,
                      fault |-> r.fault, missing |-> r.missing, draws |-> r.draws,
                      result |-> r.result]
    /\ UNCHANGED <<MESH_COUNT, FORWARD_MESH_COUNT, meshPrograms, forwardPrograms, live, compiled>>
    /\ UNCHANGED <<pipelineVars, threadVars>>

\* Mutant: the textured ambient-and-directional arm uses the slot of the
\* textured ambient arm.
ForwardSlotTextureShared(color_source, directional) ==
    IF color_source = "Color"
    THEN (IF directional THEN "PROGRAM_COLOR_AMBIENT_DIRECTIONAL" ELSE "PROGRAM_COLOR_AMBIENT")
    ELSE "PROGRAM_TEXTURE_AMBIENT"

\* The slot the `match self.material.color_source` of a forward render picks.
ForwardSlot(color_source, directional) ==
    IF color_source = "Color"
    THEN (IF directional THEN "PROGRAM_COLOR_AMBIENT_DIRECTIONAL" ELSE "PROGRAM_COLOR_AMBIENT")
    ELSE (IF directional THEN "PROGRAM_TEXTURE_AMBIENT_DIRECTIONAL" ELSE "PROGRAM_TEXTURE_AMBIENT")

\* A forward render function; at most `cap` programs are compiled in a run.
ForwardRenderWithin(cap, op, directional, object, fault) ==
    /\ object \in Alive
    /\ object.forward
    /\ LET slot == ForwardSlot(object.color_source, directional)
           f == Fetch(forwardPrograms[slot], SourceForward(object.color_source, directional),
                      compiled, fault)
       IN  /\ CanCompileWithin(cap, forwardPrograms[slot], fault)
           /\ forwardPrograms' = [forwardPrograms EXCEPT ![slot] = f.slot]
           /\ compiled' = IF f.compile = "ok" THEN compiled + 1 ELSE compiled
           /\ lastOp' = RenderRecord(op, Some(object), slot, f, TRUE, fault)
           /\ Fires(fault, lastOp'.fault = fault)
    /\ UNCHANGED <<MESH_COUNT, FORWARD_MESH_COUNT, meshPrograms, live>>
    /\ UNCHANGED <<pipelineVars, threadVars>>

ForwardRenderWith(op, directional, object, fault) ==
    ForwardRenderWithin(MaxCompiles, op, directional, object, fault)

render_with_ambient(object, fault) ==
    ForwardRenderWith("render_with_ambient", FALSE, object, fault)

render_with_ambient_and_directional(object, fault) ==
    ForwardRenderWith("render_with_ambient_and_directional", TRUE, object, fault)

----------------------------------------------------------------------------
(* ImageEffect *)

\* ImageEffect::apply(render_states, viewport): the pass it issues, a draw
\* of the three vertices of the full-viewport triangle under render_states.
\* `effect` names the ImageEffect, `light` the place of the light in the
\* caller's array, `binds` what was bound to the program before the call.
ImageEffectApply(effect, light, render_states, binds, gbuffer, depthMap, selector) ==
    [effect |-> effect, light |-> light, blend |-> render_states.blend,
     binds |-> binds, gbuffer |-> gbuffer, depthMap |-> depthMap,
     selector |-> selector, draw |-> DrawArrays(3)]

----------------------------------------------------------------------------
(* PhongDeferredPipeline *)

DebugTypes == {"POSITION", "NORMAL", "COLOR", "DEPTH", "DIFFUSE", "SPECULAR", "POWER", "NONE"}

Texture(id, width, height, layers) ==
    [id |-> id, width |-> width, height |-> height, layers |-> layers]

\* ColorTargetTexture2DArray::new(context, width, height, 2, ..) as
\* geometry_pass and new call it; `n` textures were allocated before.
NewColorArray(n, width, height) == Texture(n + 1, width, height, 2)

\* DepthTargetTexture2DArray::new(context, width, height, 1, ..).
NewDepthArray(n, width, height) == Texture(n + 1, width, height, 1)

NoLights == [ambient |-> FALSE, directional |-> 0, spot |-> 0, point |-> 0]

\* The record of a call on the pipeline: the function, the size or the
\* lights it was given, the collaborator failure it ran into, the passes it
\* issued, how often it invoked the render callback and the colour and depth
\* textures of the render target the callback drew into, the texture it
\* returned and its result.
NoCall == [op |-> "none", size |-> <<0, 0>>, lights |-> NoLights, fault |-> "none",
           passes |-> <<>>, callbacks |-> 0, target |-> <<0, 0>>, returned |-> 0,
           result |-> "Ok"]

PipelineCalled(op, result, fault) ==
    [NoCall EXCEPT !.op = op, !.result = result, !.fault = fault]

NewPipelineFaults == {"none", "compile", "alloc_vertex", "alloc_color", "alloc_depth", "bind"}

\* PhongDeferredPipeline::new(context).  A shader that does not compile, a
\* texture that cannot be allocated and a failed use_texture return the
\* error; the vertex buffers of an ImageEffect are unwrapped.
PipelineNew(fault) ==
    /\ pipeline = None
    /\ allocated + 2 <= MaxTextures
    /\ IF fault = "none"
       THEN /\ pipeline' = Some([debug_effect |-> None,
                                 debug_type |-> "NONE",
                                 geometry_pass_texture |-> Some(NewColorArray(allocated, 1, 1)),
                                 geometry_pass_depth_texture |-> Some(NewDepthArray(allocated + 1, 1, 1))])
            /\ allocated' = allocated + 2
            /\ lastCall' = PipelineCalled("new", "Ok", "none")
       ELSE /\ pipeline' = None
            /\ allocated' = allocated + (CASE fault = "alloc_depth" -> 1
                                           [] fault = "bind" -> 2
                                           [] OTHER -> 0)
            /\ lastCall' = PipelineCalled("new", IF fault = "alloc_vertex" THEN "Panic" ELSE "Err", fault)
    /\ UNCHANGED snapshot
    /\ UNCHANGED <<cacheVars, threadVars>>

\* The caller assigns the public field debug_type.
SetDebugType(type) ==
    /\ pipeline # None
    /\ pipeline' = Some([pipeline[1] EXCEPT !.debug_type = type])
    /\ lastCall' = PipelineCalled("debug_type", "Ok", "none")
    /\ UNCHANGED <<allocated, snapshot>>
    /\ UNCHANGED <<cacheVars, threadVars>>

GeometryFaults == {"none", "alloc_color", "alloc_depth", "render_target", "callback"}

\* Mutant: a texture is given up before its replacement is allocated.
AfterGeometryPassDropsFirst(self, n, width, height, fault) ==
    IF fault = "alloc_color" THEN [self EXCEPT !.geometry_pass_texture = None]
    ELSE IF fault = "alloc_depth"
    THEN [self EXCEPT !.geometry_pass_texture = Some(NewColorArray(n, width, height)),
                      !.geometry_pass_depth_texture = None]
    ELSE [self EXCEPT !.geometry_pass_texture = Some(NewColorArray(n, width, height)),
                      !.geometry_pass_depth_texture = Some(NewDepthArray(n + 1, width, height))]

\* Mutant: a G-buffer that already has the size asked for is kept.
AfterGeometryPassKeepsSameSize(self, n, width, height, fault) ==
    IF \/ fault = "alloc_color"
       \/ /\ self.geometry_pass_texture[1].width = width
          /\ self.geometry_pass_texture[1].height = height
    THEN self
    ELSE IF fault = "alloc_depth"
    THEN [self EXCEPT !.geometry_pass_texture = Some(NewColorArray(n, width, height))]
    ELSE [self EXCEPT !.geometry_pass_texture = Some(NewColorArray(n, width, height)),
                      !.geometry_pass_depth_texture = Some(NewDepthArray(n + 1, width, height))]

\* The fields of the pipeline after geometry_pass(width, height, render):
\* each texture is assigned once its allocation has succeeded.
AfterGeometryPass(self, n, width, height, fault) ==
    IF fault = "alloc_color" THEN self
    ELSE IF fault = "alloc_depth"
    THEN [self EXCEPT !.geometry_pass_texture = Some(NewColorArray(n, width, height))]
    ELSE [self EXCEPT !.geometry_pass_texture = Some(NewColorArray(n, width, height)),
                      !.geometry_pass_depth_texture = Some(NewDepthArray(n + 1, width, height))]

\* RenderTargetArray::write(clear_state, layers, 0, render): clears the
\* target, invokes render once and hands on its result.
RenderTargetArrayWrite(fault) ==
    [callbacks |-> 1, result |-> IF fault = "callback" THEN "Err" ELSE "Ok"]

\* Mutant: a render target that could not be created does not end the call.
WriteReachedWithoutTarget(fault) == fault \notin {"alloc_color", "alloc_depth"}

\* The three `?` before RenderTargetArray::write: whether geometry_pass gets
\* to the write.
WriteReached(fault) == fault \notin {"alloc_color", "alloc_depth", "render_target"}

\* geometry_pass(width, height, render).  fault = "callback": render
\* returns an error, which RenderTargetArray::write hands on.
geometry_pass(width, height, fault) ==
    /\ pipeline # None
    /\ allocated + 2 <= MaxTextures
    /\ pipeline' = Some(AfterGeometryPass(pipeline[1], allocated, width, height, fault))
    /\ allocated' = allocated + (CASE fault = "alloc_color" -> 0
                                   [] fault = "alloc_depth" -> 1
                                   [] OTHER -> 2)
    /\ lastCall' = [PipelineCalled("geometry_pass", IF fault = "none" THEN "Ok" ELSE "Err", fault)
                       EXCEPT !.size = <<width, height>>,
                              !.callbacks = IF WriteReached(fault)
                                            THEN RenderTargetArrayWrite(fault).callbacks ELSE 0,
                              !.target = IF WriteReached(fault)
                                         THEN <<pipeline'[1].geometry_pass_texture[1].id,
                                                pipeline'[1].geometry_pass_depth_texture[1].id>>
                                         ELSE <<0, 0>>]
    /\ UNCHANGED snapshot
    /\ UNCHANGED <<cacheVars, threadVars>>

\* geometry_pass_texture() and geometry_pass_depth_texture_array().
TextureAccessor(self) == self.geometry_pass_texture[1]

DepthArrayAccessor(self) == self.geometry_pass_depth_texture[1]

geometry_pass_texture ==
    /\ pipeline # None
    /\ lastCall' = [PipelineCalled("geometry_pass_texture", "Ok", "none")
                       EXCEPT !.returned = TextureAccessor(pipeline[1]).id]
    /\ UNCHANGED <<pipeline, allocated, snapshot>>
    /\ UNCHANGED <<cacheVars, threadVars>>

geometry_pass_depth_texture_array ==
    /\ pipeline # None
    /\ lastCall' = [PipelineCalled("geometry_pass_depth_texture_array", "Ok", "none")
                       EXCEPT !.returned = DepthArrayAccessor(pipeline[1]).id]
    /\ UNCHANGED <<pipeline, allocated, snapshot>>
    /\ UNCHANGED <<cacheVars, threadVars>>

SnapshotFaults == {"none", "alloc", "render_target", "copy"}

\* Mutant: the accessor hands out the depth array itself.
DepthSnapshotAliased(depth_array, n) ==
    [id |-> depth_array.id, width |-> depth_array.width, height |-> depth_array.height,
     layers |-> depth_array.layers, copied_from |-> depth_array.id, layer |-> 0]

\* The DepthTargetTexture2D that geometry_pass_depth_texture builds when `n`
\* textures were allocated before: of the size of the depth array, holding
\* what copy_depth(0, ..) copied from its layer 0.
DepthSnapshot(depth_array, n) ==
    [id |-> n + 1, width |-> depth_array.width, height |-> depth_array.height,
     layers |-> 1, copied_from |-> depth_array.id, layer |-> 0]

\* geometry_pass_depth_texture(): a new DepthTargetTexture2D of the size of
\* the depth array, filled by copy_depth from layer 0; every collaborator
\* result is unwrapped.
geometry_pass_depth_texture(fault) ==
    /\ pipeline # None
    /\ allocated + 1 <= MaxTextures
    /\ LET depth_array == pipeline[1].geometry_pass_depth_texture[1]
           depth_texture == DepthSnapshot(depth_array, allocated)
       IN  IF fault = "none"
           THEN /\ snapshot' = Some(depth_texture)
                /\ allocated' = allocated + 1
                /\ lastCall' = [PipelineCalled("geometry_pass_depth_texture", "Ok", "none")
                                   EXCEPT !.returned = depth_texture.id]
           ELSE /\ snapshot' = snapshot
                /\ allocated' = allocated + (IF fault = "alloc" THEN 0 ELSE 1)
                /\ lastCall' = PipelineCalled("geometry_pass_depth_texture", "Panic", fault)
    /\ UNCHANGED pipeline
    /\ UNCHANGED <<cacheVars, threadVars>>

----------------------------------------------------------------------------
(* PhongDeferredPipeline::light_pass *)

\* Mutant: light_pass starts from additive blending.
InitialRenderStatesAdditive == [cull |-> "Back", depth_test |-> "LessOrEqual", blend |-> "ADD"]

\* The render states light_pass starts from: blend is the default, none.
InitialRenderStates == [cull |-> "Back", depth_test |-> "LessOrEqual", blend |-> "None"]

\* Mutant: the blend mode is left as it was.
AfterPassBlendKept(render_states) == render_states

\* `render_states.blend = Some(BlendParameters::ADD)` after a pass.
AfterPass(render_states) == [render_states EXCEPT !.blend = "ADD"]

\* What each effect has bound when its apply is called.
AmbientBinds == {"gbuffer", "depthMap", "ambientColor"}

DirectionalBinds == {"gbuffer", "depthMap", "eyePosition", "viewProjectionInverse",
                     "shadowMap", "DirectionalLightUniform"}

SpotBinds == {"gbuffer", "depthMap", "eyePosition", "viewProjectionInverse",
              "shadowMap", "SpotLightUniform"}

\* Mutant: the point pass is applied without the eye position.
PointBindsWithoutEye == {"gbuffer", "depthMap", "viewProjectionInverse", "PointLightUniform"}

PointBinds == {"gbuffer", "depthMap", "eyePosition", "viewProjectionInverse",
               "PointLightUniform"}

DebugBinds == {"viewProjectionInverse", "gbuffer", "depthMap", "type"}

BindsOf(effect) ==
    CASE effect = "ambient" -> AmbientBinds
      [] effect = "directional" -> DirectionalBinds
      [] effect = "spot" -> SpotBinds
      [] effect = "point" -> PointBinds
      [] effect = "debug" -> DebugBinds

\* Mutant: a pipeline that has drawn a debug view starts its later calls
\* from additive blending.
RunningKeepsBlend(self, fault, at) ==
    [self |-> self, passes |-> <<>>,
     render_states |-> IF self.debug_effect = None THEN InitialRenderStates
                       ELSE AfterPass(InitialRenderStates),
     result |-> "Running", fault |-> fault, at |-> at]

\* Mutant: light_pass refuses a G-buffer of the placeholder's size.
RunningRejectsPlaceholder(self, fault, at) ==
    [self |-> self, passes |-> <<>>, render_states |-> InitialRenderStates,
     result |-> IF TextureAccessor(self).width = 1 /\ TextureAccessor(self).height = 1
                THEN "Err" ELSE "Running",
     fault |-> fault, at |-> at]

\* The running state of a light_pass call: the passes issued, the render
\* states, and the result once the call has ended early.
Running(self, fault, at) ==
    [self |-> self, passes |-> <<>>, render_states |-> InitialRenderStates,
     result |-> "Running", fault |-> fault, at |-> at]

\* One block of light_pass for one light: the bindings (`?`), the inverse of
\* the camera matrix (unwrapped) where the effect needs it, the apply, and
\* the switch to additive blending.  fault = "bind" fails a binding or the
\* apply of pass number `at`; fault = "invert" is a camera matrix without
\* inverse.
LightBlock(st, effect, light) ==
    IF st.result # "Running" THEN st
    ELSE IF st.fault = "bind" /\ st.at = Len(st.passes) + 1 THEN [st EXCEPT !.result = "Err"]
    ELSE IF st.fault = "invert" /\ "viewProjectionInverse" \in BindsOf(effect)
    THEN [st EXCEPT !.result = "Panic"]
    ELSE [st EXCEPT
            !.passes = Append(@, ImageEffectApply(effect, light, st.render_states, BindsOf(effect),
                                    TextureAccessor(st.self).id, DepthArrayAccessor(st.self).id, "NONE")),
            !.render_states = AfterPass(@)]

\* `for light in lights { .. }` from the light at place i of n on.
RECURSIVE LightLoop(_, _, _, _)
LightLoop(st, effect, i, n) ==
    IF i > n THEN st ELSE LightLoop(LightBlock(st, effect, i), effect, i + 1, n)

\* Mutant: the point lights are shaded before the spot lights.
LightingPointBeforeSpot(self, ambient, directional, spot, point, fault, at) ==
    LET a == IF ambient THEN LightBlock(Running(self, fault, at), "ambient", 0)
                        ELSE Running(self, fault, at)
        d == LightLoop(a, "directional", 1, directional)
        p == LightLoop(d, "point", 1, point)
        s == LightLoop(p, "spot", 1, spot)
    IN  s

\* The lighting branch of light_pass: ambient, directional, spot, point.
Lighting(self, ambient, directional, spot, point, fault, at) ==
    LET a == IF ambient THEN LightBlock(Running(self, fault, at), "ambient", 0)
                        ELSE Running(self, fault, at)
        d == LightLoop(a, "directional", 1, directional)
        s == LightLoop(d, "spot", 1, spot)
        p == LightLoop(s, "point", 1, point)
    IN  p

\* Mutant: the debug view is drawn on top of the lighting.
DebuggingAfterLighting(self, fault) ==
    LET st == LightBlock(Running(self, fault, 2), "ambient", 0)
    IN  IF fault = "invert" THEN [st EXCEPT !.result = "Panic"]
        ELSE IF fault = "bind" THEN [st EXCEPT !.result = "Err"]
        ELSE [st EXCEPT
                !.passes = Append(@, ImageEffectApply("debug", 0, st.render_states, DebugBinds,
                                 TextureAccessor(self).id, DepthArrayAccessor(self).id,
                                 self.debug_type))]

\* The debug branch of light_pass, entered with debug_effect already set.
Debugging(self, fault) ==
    LET st == Running(self, fault, 1)
    IN  IF fault = "invert" THEN [st EXCEPT !.result = "Panic"]
        ELSE IF fault = "bind" THEN [st EXCEPT !.result = "Err"]
        ELSE [st EXCEPT
                !.passes = <<ImageEffectApply("debug", 0, st.render_states, DebugBinds,
                                 TextureAccessor(self).id, DepthArrayAccessor(self).id,
                                 self.debug_type)>>]

LightFaults == {"none", "compile", "invert", "bind"}

\* Whether the injected failure is one the call runs into.
LightFaultFires(self, ambient, directional, spot, point, fault, at) ==
    IF self.debug_type # "NONE"
    THEN /\ at = 1
         /\ fault = "compile" => self.debug_effect = None
    ELSE CASE fault = "compile" -> FALSE
           [] fault = "invert" -> at = 1 /\ directional + spot + point > 0
           [] fault = "bind" -> at <= (IF ambient THEN 1 ELSE 0) + directional + spot + point
           [] OTHER -> at = 1

\* light_pass(viewport, camera, ambient_light, directional_lights,
\* spot_lights, point_lights); the three arrays are given by their lengths.
light_pass(ambient, directional, spot, point, fault, at) ==
    /\ pipeline # None
    /\ fault = "none" => at = 1
    /\ Fires(fault, LightFaultFires(pipeline[1], ambient, directional, spot, point, fault, at))
    /\ LET self == pipeline[1]
           lights == [ambient |-> ambient, directional |-> directional,
                      spot |-> spot, point |-> point]
       IN  IF self.debug_type # "NONE"
           THEN IF self.debug_effect = None /\ fault = "compile"
                THEN /\ pipeline' = pipeline
                     /\ lastCall' = [PipelineCalled("light_pass", "Panic", fault)
                                        EXCEPT !.lights = lights]
                ELSE LET st == Debugging(self, fault)
                     IN  /\ pipeline' = Some([self EXCEPT !.debug_effect = Some("debug.frag")])
                         /\ lastCall' = [PipelineCalled("light_pass",
                                            IF st.result = "Running" THEN "Ok" ELSE st.result, fault)
                                            EXCEPT !.lights = lights, !.passes = st.passes]
           ELSE LET st == Lighting(self, ambient, directional, spot, point, fault, at)
                IN  /\ pipeline' = pipeline
                    /\ lastCall' = [PipelineCalled("light_pass",
                                       IF st.result = "Running" THEN "Ok" ELSE st.result, fault)
                                       EXCEPT !.lights = lights, !.passes = st.passes]
    /\ UNCHANGED <<allocated, snapshot>>
    /\ UNCHANGED <<cacheVars, threadVars>>

----------------------------------------------------------------------------
(* Two threads without external synchronisation *)

\* The statics are `static mut`, read and written in `unsafe` blocks without
\* a lock or an atomic: `MESH_COUNT += 1` is a load and a store, and
\* `if PROGRAM_DEPTH.is_none() { PROGRAM_DEPTH = Some(..) }` a load and a
\* store with a compilation between them.  Each thread takes these steps one
\* at a time, interleaved with the other thread's.
Threads == {"t1", "t2"}

\* A thread between calls; reg is the value it loaded, program the program
\* its last render used.
IdleThread == [pc |-> "idle", reg |-> 0, program |-> 0]

\* History: meshes constructed, counter updates overwritten by a store of a
\* value loaded before them, times a render found PROGRAM_DEPTH empty, times
\* a drop cleared the slots.
NoRace == [created |-> 0, drift |-> 0, empties |-> 0, cleared |-> 0]

At(pc) == {t \in Threads : threads[t].pc = pc}

Quiescent == At("idle") = Threads

\* The CPUMesh the threads construct from: positions only.
ThreadCPUMesh == [positions |-> 9, normals |-> FALSE, indices |-> 0, uvs |-> FALSE, colors |-> FALSE]

\* Mutant: the counter is incremented atomically.
IncrementedAtomically(reg, count) == count + 1

\* The store of `MESH_COUNT += 1`: the value loaded, plus one.  The counter
\* is a u32; the integer -1 stands for the u32::MAX a decrement of 0 wraps to.
Incremented(reg, count) == reg + 1

\* The store of `MESH_COUNT -= 1`.
Decremented(reg, count) == reg - 1

\* Mesh::new up to the load of `MESH_COUNT += 1`.
ThreadNewLoad(t) ==
    /\ threads[t].pc = "idle"
    /\ race.created < MaxCreated
    /\ threads' = [threads EXCEPT ![t] = [IdleThread EXCEPT !.pc = "new_store", !.reg = MESH_COUNT]]
    /\ race' = [race EXCEPT !.created = @ + 1]
    /\ UNCHANGED <<cacheVars, pipelineVars>>

\* The store of `MESH_COUNT += 1` and the return of the Mesh.
ThreadNewStore(t) ==
    /\ threads[t].pc = "new_store"
    /\ MESH_COUNT' = Incremented(threads[t].reg, MESH_COUNT)
    /\ live' = Created(PlainMesh(ThreadCPUMesh))
    /\ race' = [race EXCEPT !.drift = @ + (MESH_COUNT - threads[t].reg)]
    /\ threads' = [threads EXCEPT ![t] = IdleThread]
    /\ UNCHANGED <<FORWARD_MESH_COUNT, meshPrograms, forwardPrograms, compiled, lastOp>>
    /\ UNCHANGED pipelineVars

\* Drop for Mesh up to the load of `MESH_COUNT -= 1`.  A mesh a render call
\* of another thread borrows is not dropped.
ThreadDropLoad(t, object) ==
    /\ threads[t].pc = "idle"
    /\ object \in Alive
    /\ NumberAlive > Cardinality(At("compile"))
    /\ live' = Destroyed(object)
    /\ threads' = [threads EXCEPT ![t] = [IdleThread EXCEPT !.pc = "drop_store", !.reg = MESH_COUNT]]
    /\ UNCHANGED <<MESH_COUNT, FORWARD_MESH_COUNT, meshPrograms, forwardPrograms, compiled, lastOp>>
    /\ UNCHANGED <<race, pipelineVars>>

\* The store of `MESH_COUNT -= 1`.  A decrement of 0 wraps in a build
\* without overflow checks and panics in a build with them.
ThreadDropStore(t, outcome) ==
    /\ threads[t].pc = "drop_store"
    /\ outcome = "panic" => threads[t].reg = 0
    /\ IF outcome = "panic"
       THEN /\ MESH_COUNT' = MESH_COUNT
            /\ race' = [race EXCEPT !.drift = @ - 1]
            /\ threads' = [threads EXCEPT ![t] = IdleThread]
       ELSE /\ MESH_COUNT' = Decremented(threads[t].reg, MESH_COUNT)
            /\ race' = [race EXCEPT !.drift = @ + (MESH_COUNT - threads[t].reg)]
            /\ threads' = [threads EXCEPT ![t].pc = "drop_test"]
    /\ UNCHANGED <<FORWARD_MESH_COUNT, meshPrograms, forwardPrograms, live, compiled, lastOp>>
    /\ UNCHANGED pipelineVars

\* `if MESH_COUNT == 0 { PROGRAM_* = None }` of Drop for Mesh.
ThreadDropTest(t) ==
    /\ threads[t].pc = "drop_test"
    /\ IF MESH_COUNT = 0
       THEN /\ meshPrograms' = Cleared(meshPrograms)
            /\ race' = [race EXCEPT !.cleared = @ + 1]
       ELSE UNCHANGED <<meshPrograms, race>>
    /\ threads' = [threads EXCEPT ![t] = IdleThread]
    /\ UNCHANGED <<MESH_COUNT, FORWARD_MESH_COUNT, forwardPrograms, live, compiled, lastOp>>
    /\ UNCHANGED pipelineVars

\* Mutant: the program is stored only into a slot that is still empty.
StoredIfStillEmpty(slot, program) == IF slot = None THEN Some(program) ELSE slot

\* `PROGRAM_DEPTH = Some(MeshProgram::new(..)?)`: the store.
Stored(slot, program) == Some(program)

\* render_depth up to `PROGRAM_DEPTH.is_none()`: with a program in the slot
\* the call uses it; with none it goes on to compile one.
ThreadRenderCheck(t, object) ==
    /\ threads[t].pc = "idle"
    /\ object \in Alive
    /\ IF meshPrograms["PROGRAM_DEPTH"] = None
       THEN /\ race.empties < MaxCompiles
            /\ threads' = [threads EXCEPT ![t] = [IdleThread EXCEPT !.pc = "compile"]]
            /\ race' = [race EXCEPT !.empties = @ + 1]
       ELSE /\ threads' = [threads EXCEPT
                              ![t] = [IdleThread EXCEPT !.program = meshPrograms["PROGRAM_DEPTH"][1].id]]
            /\ race' = race
    /\ UNCHANGED <<cacheVars, pipelineVars>>

\* MeshProgram::new, the store into PROGRAM_DEPTH, and the render with
\* `PROGRAM_DEPTH.as_ref().unwrap()`.
ThreadRenderStore(t) ==
    /\ threads[t].pc = "compile"
    /\ compiled' = compiled + 1
    /\ meshPrograms' = [meshPrograms EXCEPT
                           !["PROGRAM_DEPTH"] = Stored(@, MeshProgramNew(compiled + 1, SourceDepth))]
    /\ threads' = [threads EXCEPT
                      ![t] = [IdleThread EXCEPT !.program = meshPrograms'["PROGRAM_DEPTH"][1].id]]
    /\ UNCHANGED <<MESH_COUNT, FORWARD_MESH_COUNT, forwardPrograms, live, lastOp>>
    /\ UNCHANGED <<race, pipelineVars>>

----------------------------------------------------------------------------
(* Specifications *)

Init ==
    /\ MESH_COUNT = 0
    /\ FORWARD_MESH_COUNT = 0
    /\ meshPrograms = [s \in MeshSlots |-> None]
    /\ forwardPrograms = [s \in ForwardSlots |-> None]
    /\ live = EmptyBag
    /\ compiled = 0
    /\ lastOp = NoOp
    /\ pipeline = None
    /\ allocated = 0
    /\ snapshot = None
    /\ lastCall = NoCall
    /\ threads = [t \in Threads |-> IdleThread]
    /\ race = NoRace

\* The program cache: up to MaxMeshes objects of two shapes.
Next ==
    \/ \E cpu \in CachePlainCPUMeshes, fault \in CacheNewFaults :
          MeshNew(MaxMeshes, cpu, fault)
    \/ \E cpu \in CacheCPUMeshes, cs \in ColorSources, fault \in CacheNewFaults :
          PhongForwardMeshNew(MaxMeshes, cpu, cs, fault)
    \/ \E object \in Alive : Drop(object)
    \/ \E object \in Alive, fault \in CacheRenderFaults : render_depth(object, fault)
    \/ \E object \in Alive, fault \in CacheRenderFaults : render_color(object, fault)
    \/ \E object \in Alive, fault \in CacheRenderFaults : render_with_color(object, fault)
    \/ \E object \in Alive, fault \in CacheRenderFaults : render_with_texture(object, fault)
    \/ \E object \in Alive, fault \in CacheRenderFaults : render_with_ambient(object, fault)
    \/ \E object \in Alive, fault \in CacheRenderFaults :
          render_with_ambient_and_directional(object, fault)

Spec == Init /\ [][Next]_vars

\* Mesh::render: one object at a time, of every shape, with every program.
NextRender ==
    \/ \E cpu \in CPUMeshes, fault \in NewFaults : MeshNew(1, cpu, fault)
    \/ \E object \in Alive : Drop(object)
    \/ \E object \in Alive, program \in CustomPrograms, fault \in RenderFaults :
          render(object, program, fault)

SpecRender == Init /\ [][NextRender]_vars

\* The built-in render methods of Mesh: one triangle without indices, with
\* every combination of optional attributes.
BuiltInCPUMeshes == {c \in CPUMeshes : c.positions = 9 /\ c.indices = 0}

NextBuiltIn ==
    \/ \E cpu \in BuiltInCPUMeshes, fault \in NewFaults : MeshNew(1, cpu, fault)
    \/ \E object \in Alive : Drop(object)
    \/ \E object \in Alive, fault \in RenderFaults : render_depth(object, fault)
    \/ \E object \in Alive, fault \in RenderFaults : render_color(object, fault)
    \/ \E object \in Alive, fault \in RenderFaults : render_with_color(object, fault)
    \/ \E object \in Alive, fault \in RenderFaults : render_with_texture(object, fault)

SpecBuiltIn == Init /\ [][NextBuiltIn]_vars

\* The forward specification: forward meshes of both colour sources, both
\* forward render functions with room for a program per slot, and one
\* render function of mesh.rs.
NextForward ==
    \/ \E cpu \in CacheCPUMeshes, color_source \in ColorSources, fault \in CacheNewFaults :
          PhongForwardMeshNew(MaxMeshes, cpu, color_source, fault)
    \/ \E object \in Alive : Drop(object)
    \/ \E object \in Alive, fault \in {"none", "compile"} :
          ForwardRenderWithin(MaxForwardCompiles, "render_with_ambient", FALSE, object, fault)
    \/ \E object \in Alive, fault \in {"none", "compile"} :
          ForwardRenderWithin(MaxForwardCompiles, "render_with_ambient_and_directional", TRUE,
                              object, fault)
    \/ \E object \in Alive : render_depth(object, "none")

SpecForward == Init /\ [][NextForward]_vars

\* Two threads constructing, rendering and dropping meshes of mesh.rs.
NextThreads ==
    \/ \E t \in Threads : ThreadNewLoad(t)
    \/ \E t \in Threads : ThreadNewStore(t)
    \/ \E t \in Threads, object \in Alive : ThreadDropLoad(t, object)
    \/ \E t \in Threads, outcome \in {"wrap", "panic"} : ThreadDropStore(t, outcome)
    \/ \E t \in Threads : ThreadDropTest(t)
    \/ \E t \in Threads, object \in Alive : ThreadRenderCheck(t, object)
    \/ \E t \in Threads : ThreadRenderStore(t)

SpecThreads == Init /\ [][NextThreads]_vars

\* The lights of one light_pass call: whether there is an ambient light and
\* the lengths of the three arrays, at most MaxLights lights in the arrays.
LightInputs ==
    {l \in [ambient : BOOLEAN, directional : 0..MaxLights, spot : 0..MaxLights,
            point : 0..MaxLights] : l.directional + l.spot + l.point <= MaxLights}

\* The passes a binding failure can be placed at.
FailedPasses(fault) == IF fault = "bind" THEN 1..(1 + MaxLights) ELSE {1}

\* light_pass: one pipeline with its G-buffer of one size, every debug
\* mode, every combination of lights.
NextLight ==
    \/ \E fault \in NewPipelineFaults : PipelineNew(fault)
    \/ \E type \in DebugTypes : SetDebugType(type)
    \/ \E fault \in GeometryFaults : geometry_pass(1, 1, fault)
    \/ \E l \in LightInputs, fault \in LightFaults :
          \E at \in FailedPasses(fault) :
             light_pass(l.ambient, l.directional, l.spot, l.point, fault, at)

SpecLight == Init /\ [][NextLight]_vars

\* The G-buffer: geometry passes of every size, the accessors, and
\* light_pass with an ambient and a directional light at most, in the
\* lighting mode and one debug mode.
NextPipeline ==
    \/ \E fault \in NewPipelineFaults : PipelineNew(fault)
    \/ \E type \in {"NONE", "DEPTH"} : SetDebugType(type)
    \/ \E width \in 1..MaxDim, height \in 1..MaxDim, fault \in GeometryFaults :
          geometry_pass(width, height, fault)
    \/ \E ambient \in BOOLEAN, directional \in 0..1, fault \in LightFaults, at \in 1..2 :
          light_pass(ambient, directional, 0, 0, fault, at)
    \/ geometry_pass_texture
    \/ geometry_pass_depth_texture_array
    \/ \E fault \in SnapshotFaults : geometry_pass_depth_texture(fault)

SpecPipeline == Init /\ [][NextPipeline]_vars

----------------------------------------------------------------------------
(* Properties of the program cache *)

AllSlots == MeshSlots \cup ForwardSlots

\* The content of a slot and the live counter of its family.
SlotValue(s) == IF s \in MeshSlots THEN meshPrograms[s] ELSE forwardPrograms[s]

CountOf(s) == IF s \in MeshSlots THEN MESH_COUNT ELSE FORWARD_MESH_COUNT

Populated(family) == {s \in family : SlotValue(s) # None}

ForwardAlive == BagCardinality([o \in {x \in Alive : x.forward} |-> live[o]])

Constructors == {"Mesh::new", "PhongForwardMesh::new"}

\* C1: while the live counter of a slot's family stays above zero, a program
\* once stored in the slot stays there: no step replaces or removes it, a
\* render call of that kind does not compile and uses exactly that program;
\* and whatever program a render call uses is the one its slot holds after
\* the call (so the first call of a kind uses the one it compiled).
C1_CompiledOncePerWindow ==
    [][\A s \in AllSlots :
          /\ (SlotValue(s) # None /\ CountOf(s)' > 0) =>
                /\ SlotValue(s)' = SlotValue(s)
                /\ lastOp'.slot = s =>
                      /\ lastOp'.compile = "none"
                      /\ compiled' = compiled
                      /\ lastOp'.program = SlotValue(s)[1]
          /\ (lastOp'.slot = s /\ lastOp'.program # NoProgram) =>
                SlotValue(s)' = Some(lastOp'.program)]_vars

\* C1 witness: a forward render reused the cached program while two objects
\* were alive.
C1_Witness ==
    /\ lastOp.op = "render_with_ambient"
    /\ lastOp.compile = "none"
    /\ lastOp.program.id > 0
    /\ lastOp.result = "Ok"
    /\ NumberAlive = 2

\* C2: the drop that takes a family's counter from 1 to 0 empties all four
\* slots of the family in that step; an empty slot stays empty until a render
\* call of its kind, and that call runs the compiler and, if compilation
\* succeeds, uses a program that did not exist before the call.
C2_ClearedThenRecompiled ==
    [][/\ (MESH_COUNT = 1 /\ MESH_COUNT' = 0) => Populated(MeshSlots)' = {}
       /\ (FORWARD_MESH_COUNT = 1 /\ FORWARD_MESH_COUNT' = 0) => Populated(ForwardSlots)' = {}
       /\ \A s \in AllSlots :
             SlotValue(s) = None =>
                IF lastOp'.slot = s
                THEN /\ lastOp'.compile # "none"
                     /\ lastOp'.compile = "ok" =>
                           /\ lastOp'.program.id > compiled
                           /\ SlotValue(s)' = Some(lastOp'.program)
                ELSE SlotValue(s)' = None]_vars

\* C2 witness: the only object alive was built after the cache had been
\* cleared, and its render call compiled the second program of the run while
\* no other slot holds a program.
C2_Witness ==
    /\ lastOp.compile = "ok"
    /\ lastOp.program.id = 2
    /\ NumberAlive = 1
    /\ MESH_COUNT = 1
    /\ Populated(AllSlots) = {lastOp.slot}

\* C3 as stated: a slot is populated if and only if its family has a live
\* mesh.
C3_PopulatedIffLive ==
    \A s \in AllSlots : SlotValue(s) # None <=> CountOf(s) > 0

\* C3 amended: a slot is populated only if its family has a live mesh (the
\* slots of a live mesh stay empty until the first render of their kind), and
\* the step in which the counter returns to zero leaves every slot of the
\* family empty.
C3_PopulatedOnlyIfLive ==
    [][/\ \A s \in AllSlots : SlotValue(s)' # None => CountOf(s)' > 0
       /\ (MESH_COUNT > 0 /\ MESH_COUNT' = 0) => Populated(MeshSlots)' = {}
       /\ (FORWARD_MESH_COUNT > 0 /\ FORWARD_MESH_COUNT' = 0) =>
             Populated(ForwardSlots)' = {}]_vars

\* C3 witness: a live forward mesh with one forward slot populated and the
\* other three still empty.
C3_Witness ==
    /\ FORWARD_MESH_COUNT > 0
    /\ Cardinality(Populated(ForwardSlots)) = 1
    /\ lastOp.slot \in ForwardSlots

\* C4: MESH_COUNT is the number of live objects holding a Mesh (plain or
\* inside a PhongForwardMesh) and the forward MESH_COUNT the number of live
\* PhongForwardMesh objects; neither goes below zero; a successful Mesh::new
\* adds one to the former only, a successful PhongForwardMesh::new one to
\* each, a drop removes one from each counter the object was counted in, and
\* a failed construction changes neither the counters nor the slots.
C4_CountersMatchLiveObjects ==
    [][/\ MESH_COUNT' = NumberAlive' /\ MESH_COUNT' >= 0
       /\ FORWARD_MESH_COUNT' = ForwardAlive' /\ FORWARD_MESH_COUNT' >= 0
       /\ (lastOp'.op \in Constructors /\ lastOp'.result # "Ok") =>
             UNCHANGED <<MESH_COUNT, FORWARD_MESH_COUNT, live, meshPrograms, forwardPrograms>>
       /\ (lastOp'.op = "Mesh::new" /\ lastOp'.result = "Ok") =>
             /\ MESH_COUNT' = MESH_COUNT + 1
             /\ FORWARD_MESH_COUNT' = FORWARD_MESH_COUNT
       /\ (lastOp'.op = "PhongForwardMesh::new" /\ lastOp'.result = "Ok") =>
             /\ MESH_COUNT' = MESH_COUNT + 1
             /\ FORWARD_MESH_COUNT' = FORWARD_MESH_COUNT + 1
       /\ lastOp'.op = "drop" =>
             /\ MESH_COUNT' = MESH_COUNT - 1
             /\ FORWARD_MESH_COUNT' =
                   FORWARD_MESH_COUNT - (IF lastOp'.self[1].forward THEN 1 ELSE 0)]_vars

\* C4 witness: a PhongForwardMesh was dropped while a plain Mesh stays alive,
\* after a run in which a construction can have failed.
C4_Witness ==
    /\ lastOp.op = "drop"
    /\ lastOp.self[1].forward
    /\ MESH_COUNT = 1
    /\ FORWARD_MESH_COUNT = 0
    /\ NumberAlive = 1

----------------------------------------------------------------------------
(* Properties of Mesh::render *)

\* The inputs the program declares and the mesh has no buffer for.
Lacking(program, mesh) ==
    (IF program.use_uvs /\ ~mesh.uv_buffer THEN {"uv"} ELSE {})
    \cup (IF program.use_normals /\ ~mesh.normal_buffer THEN {"normal"} ELSE {})
    \cup (IF program.use_colors /\ ~mesh.color_buffer THEN {"color"} ELSE {})

VertexCount(mesh) == mesh.position_buffer \div 3

Triangles(draw) == draw.count \div 3

\* C6: a Mesh::render call that returns Ok has issued exactly one draw call:
\* draw_elements over the whole index buffer if the mesh has one, otherwise
\* draw_arrays over all vertices, that is vertex_count / 3 triangles.
C6_ExactlyOneDraw ==
    (lastOp.rendered /\ lastOp.result = "Ok") =>
        LET mesh == lastOp.self[1].mesh
        IN  /\ Len(lastOp.draws) = 1
            /\ lastOp.draws[1].call = "draw_elements" <=> mesh.index_buffer # 0
            /\ mesh.index_buffer # 0 => lastOp.draws[1].count = mesh.index_buffer
            /\ mesh.index_buffer = 0 =>
                  /\ lastOp.draws[1].call = "draw_arrays"
                  /\ lastOp.draws[1].count = VertexCount(mesh)
                  /\ Triangles(lastOp.draws[1]) = VertexCount(mesh) \div 3

\* C6 witness: a mesh of two triangles without indices was drawn.
C6_Witness ==
    /\ lastOp.rendered
    /\ lastOp.result = "Ok"
    /\ lastOp.self[1].mesh.index_buffer = 0
    /\ lastOp.self[1].mesh.position_buffer = 18
    /\ lastOp.draws = <<DrawArrays(6)>>

----------------------------------------------------------------------------
(* Properties of light_pass *)

Passes == lastCall.passes

PassIndex == 1..Len(Passes)

LightEffects == {"ambient", "directional", "spot", "point"}

\* The last call was light_pass, in the debug or in the lighting mode.
DebugCall ==
    pipeline # None /\ lastCall.op = "light_pass" /\ pipeline[1].debug_type # "NONE"

LightingCall ==
    pipeline # None /\ lastCall.op = "light_pass" /\ pipeline[1].debug_type = "NONE"

\* C7: a light_pass call made with a debug mode other than NONE, whatever
\* lights it is given, issues no ambient, directional, spot or point pass and
\* at most one pass; when it returns Ok it has issued exactly one pass, the
\* debug effect with blending off, bound to the G-buffer, the depth array and
\* the mode selector holding the debug mode; when it does not return Ok (a
\* binding failed, or an unwrap panicked) it has issued none.
C7_DebugModeIssuesOnePass ==
    DebugCall =>
        /\ \A i \in PassIndex : Passes[i].effect \notin LightEffects
        /\ Len(Passes) <= 1
        /\ lastCall.result # "Ok" => Passes = <<>>
        /\ lastCall.result = "Ok" =>
              /\ Len(Passes) = 1
              /\ Passes[1].effect = "debug"
              /\ {"gbuffer", "depthMap", "type"} \subseteq Passes[1].binds
              /\ Passes[1].gbuffer = pipeline[1].geometry_pass_texture[1].id
              /\ Passes[1].depthMap = pipeline[1].geometry_pass_depth_texture[1].id
              /\ Passes[1].selector = pipeline[1].debug_type
              /\ Passes[1].draw = DrawArrays(3)

\* C7 witness: in the DEPTH mode a call given an ambient, a spot and a point
\* light returned Ok with its one debug pass.
C7_Witness ==
    /\ DebugCall
    /\ pipeline[1].debug_type = "DEPTH"
    /\ lastCall.lights = [ambient |-> TRUE, directional |-> 0, spot |-> 1, point |-> 1]
    /\ lastCall.result = "Ok"
    /\ Len(Passes) = 1

\* The passes a lighting call is to issue, as <<effect, place in the array>>.
ExpectedPasses(l) ==
    (IF l.ambient THEN << <<"ambient", 0>> >> ELSE <<>>)
    \o [i \in 1..l.directional |-> <<"directional", i>>]
    \o [i \in 1..l.spot |-> <<"spot", i>>]
    \o [i \in 1..l.point |-> <<"point", i>>]

\* C8: a light_pass call in the mode NONE that returns Ok (every binding
\* succeeded) has issued one pass per light given: the ambient pass if an
\* ambient light was given, then the directional lights in array order, then
\* the spot lights in array order, then the point lights in array order.
C8_OnePassPerLightInOrder ==
    (LightingCall /\ lastCall.result = "Ok") =>
        /\ Len(Passes) = (IF lastCall.lights.ambient THEN 1 ELSE 0)
                         + lastCall.lights.directional + lastCall.lights.spot
                         + lastCall.lights.point
        /\ [i \in PassIndex |-> <<Passes[i].effect, Passes[i].light>>]
              = ExpectedPasses(lastCall.lights)

\* C8 witness: an ambient, a spot and a point light were shaded in one call.
C8_Witness ==
    /\ LightingCall
    /\ lastCall.result = "Ok"
    /\ lastCall.lights = [ambient |-> TRUE, directional |-> 0, spot |-> 1, point |-> 1]
    /\ Len(Passes) = 3

\* C9 as stated: in the mode NONE every directional, spot and point pass is
\* drawn with additive blending and only an ambient pass is drawn with
\* blending off.
C9_OnlyAmbientOpaque ==
    LightingCall =>
        \A i \in PassIndex : Passes[i].blend = "None" <=> Passes[i].effect = "ambient"

\* C9 amended: in the mode NONE every pass after the first of the call is
\* drawn with additive blending and the first pass with blending off; so
\* when an ambient light is given the ambient pass is the only opaque one
\* and every directional, spot and point pass adds to the target, and when
\* none is given the first directional, spot or point pass is the opaque one.
C9_FirstPassOpaqueRestAdditive ==
    LightingCall =>
        /\ \A i \in PassIndex : Passes[i].blend = (IF i = 1 THEN "None" ELSE "ADD")
        /\ lastCall.lights.ambient =>
              \A i \in PassIndex : Passes[i].blend = "None" <=> Passes[i].effect = "ambient"

\* C9 witness: without an ambient light, two directional lights were shaded,
\* the first with blending off and the second additively.
C9_Witness ==
    /\ LightingCall
    /\ lastCall.result = "Ok"
    /\ lastCall.lights = [ambient |-> FALSE, directional |-> 2, spot |-> 0, point |-> 0]
    /\ Passes[1].blend = "None"
    /\ Passes[2].blend = "ADD"

----------------------------------------------------------------------------
(* Properties of the G-buffer *)

\* The textures the pipeline holds.
Held(p) ==
    IF p = None THEN {}
    ELSE {p[1].geometry_pass_texture[1].id, p[1].geometry_pass_depth_texture[1].id}

GBuffer(p) == <<p[1].geometry_pass_texture, p[1].geometry_pass_depth_texture>>

\* C10: a geometry_pass(width, height, ..) that returns Ok leaves the
\* pipeline with a colour array of 2 layers and a depth array of 1 layer,
\* both width x height and both allocated in this call, and with neither
\* texture of the previous pair; no other call changes the pair; every pass
\* of a light_pass binds the pair held and each accessor returns its texture
\* of the pair held.
C10_GeometryPassReallocates ==
    [][/\ (lastCall'.op = "geometry_pass" /\ lastCall'.result = "Ok") =>
             LET color == pipeline'[1].geometry_pass_texture[1]
                 depth == pipeline'[1].geometry_pass_depth_texture[1]
             IN  /\ color.layers = 2 /\ depth.layers = 1
                 /\ <<color.width, color.height>> = lastCall'.size
                 /\ <<depth.width, depth.height>> = lastCall'.size
                 /\ color.id > allocated /\ depth.id > allocated /\ color.id # depth.id
                 /\ color.id <= allocated' /\ depth.id <= allocated'
                 /\ Held(pipeline') \cap Held(pipeline) = {}
       /\ (pipeline # None /\ lastCall'.op # "geometry_pass") => GBuffer(pipeline') = GBuffer(pipeline)
       /\ lastCall'.op = "light_pass" =>
             \A i \in 1..Len(lastCall'.passes) :
                /\ lastCall'.passes[i].gbuffer = pipeline'[1].geometry_pass_texture[1].id
                /\ lastCall'.passes[i].depthMap = pipeline'[1].geometry_pass_depth_texture[1].id
       /\ lastCall'.op = "geometry_pass_texture" =>
             lastCall'.returned = pipeline'[1].geometry_pass_texture[1].id
       /\ lastCall'.op = "geometry_pass_depth_texture_array" =>
             lastCall'.returned = pipeline'[1].geometry_pass_depth_texture[1].id
       /\ (lastCall'.op = "geometry_pass_depth_texture" /\ lastCall'.result = "Ok") =>
             /\ snapshot'[1].copied_from = pipeline'[1].geometry_pass_depth_texture[1].id
             /\ snapshot'[1].width = pipeline'[1].geometry_pass_depth_texture[1].width
             /\ snapshot'[1].height = pipeline'[1].geometry_pass_depth_texture[1].height]_vars

\* C10 witness: after a second geometry pass, of 2 x 1 on a G-buffer of
\* another size, a light_pass bound the pair that pass allocated.
C10_Witness ==
    /\ LightingCall
    /\ Len(Passes) > 0
    /\ pipeline[1].geometry_pass_texture[1] = Texture(5, 2, 1, 2)
    /\ pipeline[1].geometry_pass_depth_texture[1] = Texture(6, 2, 1, 1)
    /\ Passes[1].gbuffer = 5
    /\ Passes[1].depthMap = 6

\* C11: once PhongDeferredPipeline::new has succeeded, whatever calls follow
\* (geometry_pass succeeding or failing at either allocation, at the render
\* target or in the callback, light_pass, the accessors), the pipeline holds
\* a colour array of 2 layers and a depth array of 1 layer, and neither
\* accessor call fails.
C11_BuffersAlwaysPresent ==
    pipeline # None =>
        /\ pipeline[1].geometry_pass_texture # None
        /\ pipeline[1].geometry_pass_depth_texture # None
        /\ pipeline[1].geometry_pass_texture[1].layers = 2
        /\ pipeline[1].geometry_pass_depth_texture[1].layers = 1
        /\ lastCall.op \in {"geometry_pass_texture", "geometry_pass_depth_texture_array"} =>
              /\ lastCall.result = "Ok"
              /\ lastCall.returned \in Held(pipeline)

\* C11 witness: a geometry_pass failed at the depth allocation, after the
\* colour array had been replaced; both buffers are present (the new colour
\* array of 2 x 2 next to the placeholder depth array of 1 x 1).
C11_Witness ==
    /\ pipeline # None
    /\ lastCall.op = "geometry_pass"
    /\ lastCall.fault = "alloc_depth"
    /\ lastCall.result = "Err"
    /\ pipeline[1].geometry_pass_texture[1].width = 2
    /\ pipeline[1].geometry_pass_texture[1].height = 2
    /\ pipeline[1].geometry_pass_depth_texture[1].width = 1
    /\ pipeline[1].geometry_pass_depth_texture[1].height = 1

\* C12: light_pass is accepted after any call: made right after new, after
\* another light_pass or after a geometry_pass (failed or not), a light_pass
\* in which no collaborator fails returns Ok, and the passes it has issued
\* depend on the lights and the debug mode only: the debug pass in a debug
\* mode, else one pass per light in the fixed order; each pass binds the
\* G-buffer held at the time, the 1 x 1 placeholder included.
C12_LightPassInAnyOrder ==
    [][(lastCall'.op = "light_pass" /\ lastCall'.fault = "none") =>
          /\ lastCall'.result = "Ok"
          /\ pipeline'[1].geometry_pass_texture = pipeline[1].geometry_pass_texture
          /\ pipeline'[1].geometry_pass_depth_texture = pipeline[1].geometry_pass_depth_texture
          /\ [i \in 1..Len(lastCall'.passes) |->
                 <<lastCall'.passes[i].effect, lastCall'.passes[i].light>>]
                = (IF pipeline[1].debug_type # "NONE" THEN << <<"debug", 0>> >>
                   ELSE ExpectedPasses(lastCall'.lights))
          /\ \A i \in 1..Len(lastCall'.passes) :
                /\ lastCall'.passes[i].gbuffer = pipeline[1].geometry_pass_texture[1].id
                /\ lastCall'.passes[i].depthMap = pipeline[1].geometry_pass_depth_texture[1].id]_vars

\* C12 witness: on a pipeline that has allocated nothing but its two
\* placeholders, so before any geometry pass has replaced them, a light_pass
\* shaded an ambient and a directional light from the 1 x 1 placeholder pair.
C12_Witness ==
    /\ LightingCall
    /\ allocated = 2
    /\ lastCall.result = "Ok"
    /\ Len(Passes) = 2
    /\ pipeline[1].geometry_pass_texture[1] = Texture(1, 1, 1, 2)
    /\ Passes[1].gbuffer = 1
    /\ Passes[2].depthMap = 2

----------------------------------------------------------------------------
(* Properties of PhongForwardMesh *)

\* C13: PhongForwardMesh::new on a CPUMesh without normals returns the
\* error FailedToCreateMesh and builds no object; the set of live objects,
\* MESH_COUNT, the forward MESH_COUNT and all eight slots are as before.
C13_NoNormalsNoForwardMesh ==
    [][(lastOp'.op = "PhongForwardMesh::new" /\ ~lastOp'.cpu.normals) =>
          /\ lastOp'.result = "FailedToCreateMesh"
          /\ lastOp'.self = None
          /\ UNCHANGED <<live, MESH_COUNT, FORWARD_MESH_COUNT, meshPrograms,
                         forwardPrograms, compiled>>]_vars

\* C13 witness: the construction was refused while a mesh with a compiled
\* program was alive.
C13_Witness ==
    /\ lastOp.op = "PhongForwardMesh::new"
    /\ ~lastOp.cpu.normals
    /\ lastOp.result = "FailedToCreateMesh"
    /\ MESH_COUNT = 1
    /\ NumberAlive = 1
    /\ Populated(AllSlots) # {}

\* The slot of each combination of colour source and entry point.
SlotOfCombination(color_source, op) ==
    CASE color_source = "Color" /\ op = "render_with_ambient" -> "PROGRAM_COLOR_AMBIENT"
      [] color_source = "Texture" /\ op = "render_with_ambient" -> "PROGRAM_TEXTURE_AMBIENT"
      [] color_source = "Color" /\ op = "render_with_ambient_and_directional" ->
            "PROGRAM_COLOR_AMBIENT_DIRECTIONAL"
      [] color_source = "Texture" /\ op = "render_with_ambient_and_directional" ->
            "PROGRAM_TEXTURE_AMBIENT_DIRECTIONAL"

ForwardRenders == {"render_with_ambient", "render_with_ambient_and_directional"}

\* C14: a forward render call goes through the one slot of its combination
\* of colour source and entry point: it fills that slot if the slot is empty
\* and compilation succeeds, keeps it if it is populated, and leaves the
\* other three forward slots and the four slots of mesh.rs as they were; the
\* programs held by different forward slots are different programs.
C14_OneSlotPerCombination ==
    [][/\ lastOp'.op \in ForwardRenders =>
             LET slot == SlotOfCombination(lastOp'.self[1].color_source, lastOp'.op)
             IN  /\ lastOp'.slot = slot
                 /\ \A s \in ForwardSlots \ {slot} : forwardPrograms'[s] = forwardPrograms[s]
                 /\ meshPrograms' = meshPrograms
                 /\ forwardPrograms[slot] # None => forwardPrograms'[slot] = forwardPrograms[slot]
                 /\ (forwardPrograms[slot] = None /\ lastOp'.compile = "ok") =>
                       forwardPrograms'[slot] # None
                 /\ lastOp'.program # NoProgram => forwardPrograms'[slot] = Some(lastOp'.program)
       /\ \A s, t \in Populated(ForwardSlots)' :
             s # t => forwardPrograms'[s][1].id # forwardPrograms'[t][1].id]_vars

\* C14 witness: the four combinations have been rendered, the four forward
\* slots hold the four programs of the run, and a further forward render
\* compiled nothing.
C14_Witness ==
    /\ lastOp.op \in ForwardRenders
    /\ Populated(ForwardSlots) = ForwardSlots
    /\ {forwardPrograms[s][1].id : s \in ForwardSlots} = 1..4
    /\ lastOp.compile = "none"

----------------------------------------------------------------------------
(* Properties of the render functions of mesh.rs *)

\* The mesh the last call was made on.
LastMesh == lastOp.self[1].mesh

MissingAttribute == lastOp.result = "FailedToCreateMesh"

\* C15: of the calls in which compilation and every binding succeed,
\* render_color returns the missing-attribute error exactly when the mesh has
\* no colour buffer and render_with_texture exactly when it has no uv buffer,
\* each returning Ok otherwise; render_depth and render_with_color return Ok
\* whatever buffers the mesh has, and return the missing-attribute error in no
\* call at all.
C15_BuiltInMissingAttribute ==
    /\ (lastOp.op = "render_color" /\ lastOp.fault = "none") =>
          /\ MissingAttribute <=> ~LastMesh.color_buffer
          /\ MissingAttribute => lastOp.missing = "color" /\ lastOp.draws = <<>>
          /\ ~MissingAttribute => lastOp.result = "Ok"
    /\ (lastOp.op = "render_with_texture" /\ lastOp.fault = "none") =>
          /\ MissingAttribute <=> ~LastMesh.uv_buffer
          /\ MissingAttribute => lastOp.missing = "uv" /\ lastOp.draws = <<>>
          /\ ~MissingAttribute => lastOp.result = "Ok"
    /\ lastOp.op \in {"render_depth", "render_with_color"} =>
          /\ ~MissingAttribute
          /\ lastOp.fault = "none" => lastOp.result = "Ok"

\* C15 witness: render_with_texture on a mesh that has colours and normals
\* but no uv coordinates returned the missing-attribute error.
C15_Witness ==
    /\ lastOp.op = "render_with_texture"
    /\ lastOp.fault = "none"
    /\ LastMesh.color_buffer
    /\ LastMesh.normal_buffer
    /\ ~LastMesh.uv_buffer
    /\ MissingAttribute
    /\ lastOp.missing = "uv"

----------------------------------------------------------------------------
(* Properties of error handling *)

\* C16: no call ends in a panic: every failure of a collaborator inside a
\* constructor, Mesh::render, geometry_pass, light_pass or the depth-snapshot
\* accessor comes back to the caller as an error result.
C16_FailuresReturned ==
    /\ lastCall.result # "Panic"
    /\ lastOp.result # "Panic"

\* C17: a geometry_pass in which the allocation of the colour array, of the
\* depth array or the creation of the render target fails returns an error
\* without invoking the callback; one that returns Ok has invoked it exactly
\* once; no call invokes it twice; and when it is invoked, the render target
\* it draws into is made of the two textures this call allocated, both of the
\* size asked for and both held by the pipeline.
C17_CallbackOnlyAfterReallocation ==
    [][lastCall'.op = "geometry_pass" =>
          /\ lastCall'.fault \in {"alloc_color", "alloc_depth", "render_target"} =>
                lastCall'.result = "Err" /\ lastCall'.callbacks = 0
          /\ lastCall'.result = "Ok" => lastCall'.callbacks = 1
          /\ lastCall'.callbacks <= 1
          /\ lastCall'.callbacks = 1 =>
                LET color == pipeline'[1].geometry_pass_texture[1]
                    depth == pipeline'[1].geometry_pass_depth_texture[1]
                IN  /\ lastCall'.target = <<color.id, depth.id>>
                    /\ color.id > allocated /\ depth.id > allocated
                    /\ <<color.width, color.height>> = lastCall'.size
                    /\ <<depth.width, depth.height>> = lastCall'.size]_vars

\* C17 witness: the render target could not be created for a pass of 2 x 1;
\* the callback was not invoked, though both textures had been replaced.
C17_Witness ==
    /\ lastCall.op = "geometry_pass"
    /\ lastCall.fault = "render_target"
    /\ lastCall.result = "Err"
    /\ lastCall.callbacks = 0
    /\ lastCall.size = <<2, 1>>
    /\ pipeline[1].geometry_pass_depth_texture[1].width = 2

\* C18: a geometry_pass_depth_texture call that succeeds returns a texture of
\* its own (allocated in the call, neither texture of the G-buffer) with one
\* layer, of the size of the depth array and copied from layer 0 of the depth
\* array held at the call; the call leaves the G-buffer as it was; and no
\* later geometry_pass or light_pass changes a snapshot taken before.
C18_SnapshotIndependent ==
    [][/\ lastCall'.op = "geometry_pass_depth_texture" =>
             /\ pipeline' = pipeline
             /\ lastCall'.result = "Ok" =>
                   LET depth == pipeline[1].geometry_pass_depth_texture[1]
                   IN  /\ snapshot' # None
                       /\ snapshot'[1].id > allocated
                       /\ snapshot'[1].id \notin Held(pipeline')
                       /\ lastCall'.returned = snapshot'[1].id
                       /\ snapshot'[1].layers = 1
                       /\ snapshot'[1].layer = 0
                       /\ snapshot'[1].copied_from = depth.id
                       /\ <<snapshot'[1].width, snapshot'[1].height>> = <<depth.width, depth.height>>
       /\ lastCall'.op \in {"geometry_pass", "light_pass"} => snapshot' = snapshot]_vars

\* C18 witness: a snapshot taken of the 1 x 1 placeholder is still 1 x 1 and
\* still the copy of the placeholder after a geometry pass has put a depth
\* array of 2 x 2 in its place.
C18_Witness ==
    /\ snapshot # None
    /\ lastCall.op = "geometry_pass"
    /\ lastCall.result = "Ok"
    /\ <<snapshot[1].width, snapshot[1].height>> = <<1, 1>>
    /\ pipeline[1].geometry_pass_depth_texture[1].width = 2
    /\ pipeline[1].geometry_pass_depth_texture[1].height = 2
    /\ snapshot[1].copied_from \notin Held(pipeline)

----------------------------------------------------------------------------
(* Properties of unsynchronised threads *)

\* C19: the counter is not guarded.  A store of `MESH_COUNT += 1` or
\* `MESH_COUNT -= 1` writes the value its thread loaded, +1 or -1, whatever
\* the other thread has stored since the load; so in every state MESH_COUNT
\* is the number of live meshes (with those whose drop has not yet stored)
\* less the updates so overwritten.  Without an overwritten update the
\* counter is right; with one it is wrong, and stays wrong.
C19_CounterLosesUpdates ==
    MESH_COUNT + race.drift = NumberAlive + Cardinality(At("drop_store"))

\* C19 witness: two constructions interleaved, the counter reached 1 with
\* two meshes alive, a program was compiled, and the drop of one mesh took
\* the counter to 0 and cleared the slots while the other mesh is alive.
C19_Witness ==
    /\ Quiescent
    /\ NumberAlive = 1
    /\ MESH_COUNT = 0
    /\ race.drift = 1
    /\ race.cleared = 1
    /\ compiled = 1
    /\ Populated(MeshSlots) = {}

\* The other outcome C19 names: a construction interleaved with a drop, the
\* counter is 1 with no mesh alive, and the slot filled since is never
\* cleared.
C19_NeverCleared ==
    /\ Quiescent
    /\ NumberAlive = 0
    /\ MESH_COUNT = 1
    /\ race.created = MaxCreated
    /\ Populated(MeshSlots) # {}

\* C20: compilation is not guarded.  A render call that found its slot empty
\* compiles a program and stores it whatever the slot holds by then, and
\* uses the program it stored; every call that found the slot empty
\* compiles, so the programs compiled are as many as the calls that found
\* it empty and have got to their store.
C20_EveryEmptyCheckCompiles ==
    [][/\ \A t \in Threads :
             (threads[t].pc = "compile" /\ threads'[t].pc = "idle") =>
                /\ compiled' = compiled + 1
                /\ meshPrograms'["PROGRAM_DEPTH"] = Some(MeshProgramNew(compiled', SourceDepth))
                /\ threads'[t].program = compiled'
       /\ compiled' = race'.empties - Cardinality(At("compile")')]_vars

\* C20 witness: with one mesh alive throughout, the counter right and the
\* slots never cleared, two render_depth calls both found PROGRAM_DEPTH empty
\* and the program was compiled twice; the slot holds the second.
C20_Witness ==
    /\ Quiescent
    /\ race.created = 1
    /\ NumberAlive = 1
    /\ MESH_COUNT = 1
    /\ race.drift = 0
    /\ race.cleared = 0
    /\ compiled = 2
    /\ meshPrograms["PROGRAM_DEPTH"][1].id = 2
    /\ \E t \in Threads : threads[t].program = 1

----------------------------------------------------------------------------
(* Properties of the bindings and of the frame *)

CameraBinds == {"eyePosition", "viewProjectionInverse"}

\* C21 as stated: every pass of a lighting call, the ambient pass as the
\* directional, spot and point passes, is applied with the G-buffer, the
\* depth array, the eye position and the inverse view-projection bound.
C21_EveryPassBindsCamera ==
    LightingCall =>
        \A i \in PassIndex :
            {"gbuffer", "depthMap"} \cup CameraBinds \subseteq Passes[i].binds

\* C21 amended: every pass of a lighting call is applied with the G-buffer
\* and the depth array held by the pipeline bound; every directional, spot
\* and point pass also with the eye position and the inverse
\* view-projection; the ambient pass with neither of the two, its third
\* binding being the ambient colour.
C21_LightPassesBindGBuffer ==
    LightingCall =>
        \A i \in PassIndex :
            /\ {"gbuffer", "depthMap"} \subseteq Passes[i].binds
            /\ Passes[i].gbuffer = pipeline[1].geometry_pass_texture[1].id
            /\ Passes[i].depthMap = pipeline[1].geometry_pass_depth_texture[1].id
            /\ Passes[i].draw = DrawArrays(3)
            /\ Passes[i].effect \in {"directional", "spot", "point"} =>
                  CameraBinds \subseteq Passes[i].binds
            /\ Passes[i].effect = "ambient" =>
                  Passes[i].binds = {"gbuffer", "depthMap", "ambientColor"}

\* C21 witness: a call with an ambient and a point light returned Ok; its
\* ambient pass was applied without the eye position, its point pass with it.
C21_Witness ==
    /\ LightingCall
    /\ lastCall.result = "Ok"
    /\ lastCall.lights = [ambient |-> TRUE, directional |-> 0, spot |-> 0, point |-> 1]
    /\ Passes[1].effect = "ambient"
    /\ "eyePosition" \notin Passes[1].binds
    /\ Passes[2].effect = "point"
    /\ CameraBinds \subseteq Passes[2].binds

\* The passes of a light_pass call as its inputs give them: the lights, the
\* debug mode, and the colour and depth arrays held.
FrameOf(lights, debug_type, color, depth) ==
    IF debug_type # "NONE"
    THEN << [effect |-> "debug", light |-> 0, blend |-> "None", binds |-> DebugBinds,
             gbuffer |-> color, depthMap |-> depth, selector |-> debug_type,
             draw |-> DrawArrays(3)] >>
    ELSE LET expected == ExpectedPasses(lights)
         IN  [i \in 1..Len(expected) |->
                 [effect |-> expected[i][1], light |-> expected[i][2],
                  blend |-> IF i = 1 THEN "None" ELSE "ADD",
                  binds |-> BindsOf(expected[i][1]),
                  gbuffer |-> color, depthMap |-> depth, selector |-> "NONE",
                  draw |-> DrawArrays(3)]]

\* The pipeline has compiled its debug effect: a debug view was drawn in an
\* earlier call.
DebugViewDrawn == pipeline # None /\ pipeline[1].debug_effect # None

\* C22: the passes of a light_pass call, with their blend modes, are those
\* its lights, the debug mode and the G-buffer held give, whatever calls
\* were made before: a call that returns Ok has issued exactly that
\* sequence, and a call that a failure ends early the passes of that
\* sequence before the failure.  So the first pass of every call is drawn
\* with blending off: the additive blending of one call is not carried into
\* the next.
C22_FrameFromInputsOnly ==
    (pipeline # None /\ lastCall.op = "light_pass") =>
        LET frame == FrameOf(lastCall.lights, pipeline[1].debug_type,
                             pipeline[1].geometry_pass_texture[1].id,
                             pipeline[1].geometry_pass_depth_texture[1].id)
        IN  /\ Len(Passes) <= Len(frame)
            /\ Passes = SubSeq(frame, 1, Len(Passes))
            /\ lastCall.result = "Ok" => Passes = frame
            /\ Passes # <<>> => Passes[1].blend = "None"

\* C22 witness: a pipeline that has drawn a debug view and was set back to
\* NONE shaded an ambient and a directional light, the first pass with
\* blending off and the second additively.
C22_Witness ==
    /\ LightingCall
    /\ DebugViewDrawn
    /\ lastCall.result = "Ok"
    /\ lastCall.lights = [ambient |-> TRUE, directional |-> 1, spot |-> 0, point |-> 0]
    /\ Passes[1].blend = "None"
    /\ Passes[2].blend = "ADD"

\* The light type of the first pass of a call given the lights l.
FirstEffect(l) ==
    IF l.ambient THEN "ambient"
    ELSE IF l.directional > 0 THEN "directional"
    ELSE IF l.spot > 0 THEN "spot"
    ELSE "point"

\* C23: in a light_pass call in the mode NONE that issues a pass, the first
\* pass is of the first light type given (ambient, else directional, else
\* spot, else point) and is the one pass of the call drawn with blending
\* off; every later pass of the call is drawn with additive blending.
C23_ExactlyFirstPassOpaque ==
    (LightingCall /\ Passes # <<>>) =>
        /\ Passes[1].effect = FirstEffect(lastCall.lights)
        /\ {i \in PassIndex : Passes[i].blend = "None"} = {1}
        /\ \A i \in PassIndex : i > 1 => Passes[i].blend = "ADD"

\* C23 witness: without an ambient and without a directional light, a spot
\* and a point light were shaded: the spot pass with blending off, the point
\* pass additively.
C23_Witness ==
    /\ LightingCall
    /\ lastCall.result = "Ok"
    /\ lastCall.lights = [ambient |-> FALSE, directional |-> 0, spot |-> 1, point |-> 1]
    /\ Passes[1].effect = "spot" /\ Passes[1].blend = "None"
    /\ Passes[2].effect = "point" /\ Passes[2].blend = "ADD"

----------------------------------------------------------------------------
(* Properties of the two cache families *)

RenderOps == {"render_depth", "render_color", "render_with_color", "render_with_texture",
              "render_with_ambient", "render_with_ambient_and_directional"}

\* C24: single-threaded, a populated slot has a live mesh of its family: in
\* every state reached each populated slot's family counter is above zero;
\* and a slot goes from empty to populated only in a render call of its
\* kind, made on an object alive before and after the call (a
\* PhongForwardMesh for a forward slot), which compiled the program the slot
\* then holds.
C24_PopulatedSlotHasLiveMesh ==
    [][\A s \in AllSlots :
          /\ SlotValue(s)' # None => CountOf(s)' > 0
          /\ (SlotValue(s) = None /\ SlotValue(s)' # None) =>
                /\ lastOp'.op \in RenderOps
                /\ lastOp'.slot = s
                /\ lastOp'.compile = "ok"
                /\ SlotValue(s)' = Some(lastOp'.program)
                /\ lastOp'.self # None
                /\ lastOp'.self[1] \in Alive
                /\ lastOp'.self[1] \in Alive'
                /\ s \in ForwardSlots => lastOp'.self[1].forward
                /\ CountOf(s) > 0]_vars

\* C24 witness: with a plain mesh and a forward mesh alive, a render call
\* has just compiled a forward program while a slot of the Mesh family is
\* populated too.
C24_Witness ==
    /\ MESH_COUNT = 2
    /\ FORWARD_MESH_COUNT = 1
    /\ lastOp.compile = "ok"
    /\ lastOp.slot \in ForwardSlots
    /\ Populated(MeshSlots) # {}
    /\ Populated(ForwardSlots) = {lastOp.slot}

\* Some slot of the family goes from populated to empty in the step.
SlotEmptied(family) == \E s \in family : SlotValue(s) # None /\ SlotValue(s)' = None

\* C25: the two families are counted and cleared each by its own counter.
\* A successful PhongForwardMesh::new adds one to both counters and the drop
\* of a PhongForwardMesh takes one from both; Mesh::new and the drop of a
\* plain Mesh leave the forward counter and the forward slots alone.  The
\* step that takes the forward counter to zero leaves every forward slot
\* empty, and with a Mesh still alive leaves the Mesh slots as they were; a
\* forward slot is emptied in no other step, and a Mesh slot only in the
\* step that takes the Mesh counter to zero.
C25_FamiliesIndependent ==
    [][/\ (lastOp'.op = "PhongForwardMesh::new" /\ lastOp'.result = "Ok") =>
             /\ FORWARD_MESH_COUNT' = FORWARD_MESH_COUNT + 1
             /\ MESH_COUNT' = MESH_COUNT + 1
       /\ (lastOp'.op = "drop" /\ lastOp'.self[1].forward) =>
             /\ FORWARD_MESH_COUNT' = FORWARD_MESH_COUNT - 1
             /\ MESH_COUNT' = MESH_COUNT - 1
       /\ (lastOp'.op = "Mesh::new" \/ (lastOp'.op = "drop" /\ ~lastOp'.self[1].forward)) =>
             UNCHANGED <<FORWARD_MESH_COUNT, forwardPrograms>>
       /\ (FORWARD_MESH_COUNT > 0 /\ FORWARD_MESH_COUNT' = 0) =>
             /\ Populated(ForwardSlots)' = {}
             /\ MESH_COUNT' > 0 => meshPrograms' = meshPrograms
       /\ SlotEmptied(ForwardSlots) => (FORWARD_MESH_COUNT = 1 /\ FORWARD_MESH_COUNT' = 0)
       /\ SlotEmptied(MeshSlots) => (MESH_COUNT = 1 /\ MESH_COUNT' = 0)]_vars

\* C25 witness: the drop of the last PhongForwardMesh, made while a plain
\* Mesh is alive, left the forward slots empty and the forward counter at
\* zero; the Mesh slot still holds the first program compiled, and a second
\* program, compiled after it, is held no more.
C25_Witness ==
    /\ lastOp.op = "drop"
    /\ lastOp.self[1].forward
    /\ FORWARD_MESH_COUNT = 0
    /\ MESH_COUNT = 1
    /\ Populated(ForwardSlots) = {}
    /\ \E s \in MeshSlots : Populated(MeshSlots) = {s} /\ SlotValue(s)[1].id = 1
    /\ compiled = 2

----------------------------------------------------------------------------
(* Properties of the size of the G-buffer *)

\* C26: the colour array and the depth array held by the pipeline have the
\* same width and the same height, after geometry_pass calls that succeed
\* and after calls that fail.
C26_GBufferSameSize ==
    pipeline # None =>
        /\ pipeline[1].geometry_pass_texture[1].width
              = pipeline[1].geometry_pass_depth_texture[1].width
        /\ pipeline[1].geometry_pass_texture[1].height
              = pipeline[1].geometry_pass_depth_texture[1].height

\* What holds of the sizes: the two arrays have the same size after a
\* geometry_pass that got past both allocations, and a geometry_pass whose
\* depth allocation failed has left the colour array at the size asked for
\* and the depth array as it was.
C26_SameSizeUnlessDepthAllocationFailed ==
    [][lastCall'.op = "geometry_pass" =>
          LET color == pipeline'[1].geometry_pass_texture[1]
              depth == pipeline'[1].geometry_pass_depth_texture[1]
          IN  /\ lastCall'.fault \notin {"alloc_color", "alloc_depth"} =>
                    /\ <<color.width, color.height>> = lastCall'.size
                    /\ <<depth.width, depth.height>> = lastCall'.size
              /\ lastCall'.fault = "alloc_color" => GBuffer(pipeline') = GBuffer(pipeline)
              /\ lastCall'.fault = "alloc_depth" =>
                    /\ <<color.width, color.height>> = lastCall'.size
                    /\ depth = pipeline[1].geometry_pass_depth_texture[1]]_vars

\* The state C26 does not allow: after a geometry_pass of 2 x 2 whose depth
\* allocation failed, a colour array of 2 x 2 with a depth array of 1 x 1.
C26_MixedSizes ==
    /\ lastCall.op = "geometry_pass"
    /\ lastCall.fault = "alloc_depth"
    /\ lastCall.size = <<2, 2>>
    /\ pipeline[1].geometry_pass_texture[1].width = 2
    /\ pipeline[1].geometry_pass_depth_texture[1].width = 1

====
